---- MODULE Spec2Model ----
(***************************************************************************)
(* CodeCompass analysis engine: the tree-sitter hardcoded-secret detector  *)
(* (src/src/codecompass_engine/main.py and src/api/index.py), its lazily   *)
(* populated parser registry, and the HTTP handlers of both applications.  *)
(*                                                                         *)
(* Text is modelled as a sequence of one-character strings, so the two     *)
(* regular expressions and str.strip are computed character by character.  *)
(***************************************************************************)
EXTENDS Integers, Sequences, FiniteSets, TLC

VARIABLES svc, ev, th, history, calls, http, recovers

vars == <<svc, ev, th, history, calls, http, recovers>>

None == "None"

\* the absent parser, query, request and parent node
NoParser == [grammar |-> None, maker |-> None]

NoQuery == [node |-> None, binding |-> None, init |-> None, values |-> {}]

NoRequest == [language |-> None, content |-> <<>>]

NoNode == <<>>

(***************************************************************************)
(* Characters and text                                                     *)
(***************************************************************************)
LowerSeq == <<"a","b","c","d","e","f","g","h","i","j","k","l","m",
              "n","o","p","q","r","s","t","u","v","w","x","y","z">>

UpperSeq == <<"A","B","C","D","E","F","G","H","I","J","K","L","M",
              "N","O","P","Q","R","S","T","U","V","W","X","Y","Z">>

Range(s) == {s[i] : i \in 1..Len(s)}

\* [a-z], [A-Z], [0-9] and [a-zA-Z0-9] of HIGH_ENTROPY_REGEX
LowerChars == Range(LowerSeq)

UpperChars == Range(UpperSeq)

DigitChars == {"0","1","2","3","4","5","6","7","8","9"}

IsLower(c) == c \in LowerChars

IsUpper(c) == c \in UpperChars

IsDigit(c) == c \in DigitChars

IsAlnum(c) == IsLower(c) \/ IsUpper(c) \/ IsDigit(c)

\* re.IGNORECASE on the ASCII letters of the lexicon
ToLower(c) == IF IsUpper(c) THEN LowerSeq[CHOOSE i \in 1..26 : UpperSeq[i] = c] ELSE c

Rep(c, n) == [i \in 1..n |-> c]

\* the alternatives of SENSITIVE_VAR_REGEX: key|secret|token|password|cred
SensitiveWords ==
  { <<"k","e","y">>, <<"s","e","c","r","e","t">>, <<"t","o","k","e","n">>,
    <<"p","a","s","s","w","o","r","d">>, <<"c","r","e","d">> }

\* SENSITIVE_VAR_REGEX.search(text): some alternative occurs somewhere, any case
SENSITIVE_VAR_REGEX_search(text) ==
  \E w \in SensitiveWords :
    \E i \in 1..Len(text) :
      /\ i + Len(w) - 1 <= Len(text)
      /\ \A k \in 1..Len(w) : ToLower(text[i + k - 1]) = w[k]

\* the {20,} of HIGH_ENTROPY_REGEX
MinRun == 20

\* (?=.*X) at position i: the dot does not match a newline, so the lookahead only
\* sees the rest of the line that position i is on
LookAhead(text, i, class) ==
  \E j \in i..Len(text) :
    /\ text[j] \in class
    /\ \A k \in i..(j - 1) : text[k] # "\n"

\* HIGH_ENTROPY_REGEX.search(text): a position where the three lookaheads succeed
\* and at least MinRun letters/digits follow
HIGH_ENTROPY_REGEX_search(text) ==
  \E i \in 1..Len(text) :
    /\ LookAhead(text, i, LowerChars)
    /\ LookAhead(text, i, UpperChars)
    /\ LookAhead(text, i, DigitChars)
    /\ i + MinRun - 1 <= Len(text)
    /\ \A k \in i..(i + MinRun - 1) : IsAlnum(text[k])

\* the three delimiter characters; TLA+ strings cannot hold a backquote, so it
\* is written as the token "BQ"
SQ == "'"

DQ == "\""

BQ == "BQ"

\* the character set handed to str.strip: single quote, double quote, backquote
StripChars == {SQ, DQ, BQ}

RECURSIVE LStrip(_)
LStrip(s) == IF s # <<>> /\ Head(s) \in StripChars THEN LStrip(Tail(s)) ELSE s

RECURSIVE RStrip(_)
RStrip(s) ==
  IF s # <<>> /\ s[Len(s)] \in StripChars THEN RStrip(SubSeq(s, 1, Len(s) - 1)) ELSE s

\* a variant that removes at most one character from each end
StripOnce(s) ==
  LET a == IF s # <<>> /\ Head(s) \in StripChars THEN Tail(s) ELSE s
  IN  IF a # <<>> /\ a[Len(a)] \in StripChars THEN SubSeq(a, 1, Len(a) - 1) ELSE a

\* str.strip(chars): every leading and every trailing character of the set goes
StripQuotes(s) == RStrip(LStrip(s))

\* a variant joining the two checks with a disjunction
HeuristicsEither(var_name_text, string_val_text) ==
  SENSITIVE_VAR_REGEX_search(var_name_text) \/ HIGH_ENTROPY_REGEX_search(string_val_text)

\* the condition guarding found_secrets.append
Heuristics(var_name_text, string_val_text) ==
  SENSITIVE_VAR_REGEX_search(var_name_text) /\ HIGH_ENTROPY_REGEX_search(string_val_text)

(***************************************************************************)
(* Request inputs: identifiers, string literals, statements, source texts  *)
(***************************************************************************)
N_apiSecretKey == <<"a","p","i","S","e","c","r","e","t","K","e","y">>

N_greeting == <<"g","r","e","e","t","i","n","g">>

N_password == <<"p","a","s","s","w","o","r","d">>

N_AUTH_TOKEN == <<"A","U","T","H","_","T","O","K","E","N">>

Names == {N_apiSecretKey, N_greeting, N_password, N_AUTH_TOKEN}

\* literal bodies (the text between the delimiters)
B_strong == <<"a","B","3","x","T","9","m","Q","7","p","L","2","f","R","8","v","N","4","w","Z">>

B_short == <<"s","h","o","r","t","1">>

B_nineteen == <<"a","B","3","x","T","9","m","Q","7","p","L","2","f","R","8","v","N","4","w">>

B_greet == <<"H","e","l","l","o","W","o","r","l","d","T","h","i","s","I","s","A","L","o","n","g",
    "B","u","t","N","o","t","S","e","c","r","e","t","S","t","r","i","n","g","A","B","C",
    "1","2","3">>

B_lower == Rep("a", MinRun)

B_dash == <<"a","B","3","x","T","9","m","Q","7","p","-","L","2","f","R","8","v","N","4","w","Z">>

B_tail == Rep("a", MinRun) \o <<"-","A","1">>

B_lines == Rep("a", MinRun) \o <<"\n","A","1">>

B_inner == <<SQ>> \o B_strong \o <<SQ>>

B_mid == B_strong \o <<SQ,"x">>

\* a literal is its delimiter style and its body
Delimiter(delim) ==
  CASE delim = "dq"  -> <<DQ>>
    [] delim = "sq"  -> <<SQ>>
    [] delim = "bq"  -> <<BQ>>
    [] delim = "tdq" -> <<DQ,DQ,DQ>>
    [] OTHER         -> <<>>

\* node.text of a literal: the delimiters are part of the node
LiteralText(lit) == Delimiter(lit.delim) \o lit.body \o Delimiter(lit.delim)

Lit(delim, body) == [delim |-> delim, body |-> body]

Literals ==
  {Lit("dq", b) : b \in {B_strong, B_short, B_nineteen, B_greet, B_lower, B_dash,
                         B_tail, B_inner, B_mid}}
  \cup {Lit("sq", b) : b \in {B_strong, B_short}}
  \cup {Lit("bq", b) : b \in {B_strong, B_short, B_lines}}
  \cup {Lit("tdq", b) : b \in {B_strong, B_dash, B_lines}}
  \cup {Lit("num", <<"4","2">>)}

Bind(name, lit) == [name |-> name, lit |-> lit]

\* a statement: form "assign" is  name = literal ; form "decl" is
\* const name = literal {, name = literal} ; form "other" binds nothing
Stmt(form, binds) == [form |-> form, binds |-> binds]

WideStmts ==
  {Stmt(f, <<Bind(n, l)>>) : f \in {"assign", "decl"}, n \in Names, l \in Literals}

NarrowStmts ==
  { Stmt("assign", <<Bind(N_apiSecretKey, Lit("dq", B_strong))>>),
    Stmt("assign", <<Bind(N_greeting, Lit("dq", B_greet))>>),
    Stmt("decl", <<Bind(N_password, Lit("dq", B_short))>>),
    Stmt("decl", <<Bind(N_AUTH_TOKEN, Lit("bq", B_strong))>>),
    Stmt("decl", <<Bind(N_apiSecretKey, Lit("dq", B_strong)),
                   Bind(N_greeting, Lit("dq", B_greet))>>),
    Stmt("decl", <<Bind(N_greeting, Lit("dq", B_strong)),
                   Bind(N_password, Lit("sq", B_strong))>>),
    Stmt("other", <<>>) }

\* longest source text, in statements (one statement per line)
MaxStmts == 2

RECURSIVE SeqsUpTo(_, _)
SeqsUpTo(S, n) ==
  IF n = 0 THEN {<<>>}
  ELSE LET shorter == SeqsUpTo(S, n - 1)
       IN  shorter \cup {Append(p, x) : p \in {q \in shorter : Len(q) = n - 1}, x \in S}

\* request.content
Contents == {<<x>> : x \in WideStmts} \cup SeqsUpTo(NarrowStmts, MaxStmts)

(***************************************************************************)
(* The parser provider: tree_sitter_languages.get_language and the         *)
(* tree_sitter Parser / Language.query calls the service makes             *)
(***************************************************************************)
\* language identifiers a request may carry; "klingon" has no grammar
SupportedLanguages == {"python", "javascript", "typescript", "ruby", "go"}

Languages == SupportedLanguages \cup {"klingon"}

\* get_language(name): the grammar handle, or an exception for an unknown name
get_language(language_name) ==
  IF language_name \in SupportedLanguages
    THEN [ok |-> TRUE, grammar |-> language_name]
    ELSE [ok |-> FALSE, grammar |-> None]

\* node kinds of each grammar that the two query templates and the inputs touch
GrammarSymbols(grammar) ==
  CASE grammar = "python" ->
         {"assignment", "identifier", "string", "integer"}
    [] grammar \in {"javascript", "typescript"} ->
         {"variable_declarator", "assignment_expression", "identifier", "string",
          "template_string", "number"}
    [] grammar = "ruby" ->
         {"assignment", "identifier", "string", "subshell", "chained_string", "integer"}
    [] grammar = "go" ->
         {"assignment_statement", "const_spec", "identifier",
          "interpreted_string_literal", "raw_string_literal", "int_literal"}

\* field names of each grammar
GrammarFields(grammar) ==
  CASE grammar \in {"python", "ruby"} -> {"left", "right"}
    [] grammar \in {"javascript", "typescript", "go"} -> {"left", "right", "name", "value"}

\* the node kind of a literal under a grammar
LiteralType(grammar, lit) ==
  CASE grammar = "python" ->
         (CASE lit.delim \in {"dq", "sq", "tdq"} -> "string"
            [] lit.delim = "num" -> "integer"
            [] OTHER -> "ERROR")
    [] grammar \in {"javascript", "typescript"} ->
         (CASE lit.delim \in {"dq", "sq"} -> "string"
            [] lit.delim = "bq" -> "template_string"
            [] lit.delim = "num" -> "number"
            [] OTHER -> "ERROR")
    [] grammar = "ruby" ->
         (CASE lit.delim \in {"dq", "sq"} -> "string"
            [] lit.delim = "bq" -> "subshell"
            [] lit.delim = "tdq" -> "chained_string"
            [] OTHER -> "integer")
    [] grammar = "go" ->
         (CASE lit.delim = "dq" -> "interpreted_string_literal"
            [] lit.delim = "bq" -> "raw_string_literal"
            [] lit.delim = "num" -> "int_literal"
            [] OTHER -> "ERROR")

\* the node kind of a binding under a grammar.  A declaration is foreign to
\* python and ruby: error recovery either still finds the inner assignment
\* (rec) or leaves an ERROR node
BindingType(grammar, form, rec) ==
  CASE grammar \in {"python", "ruby"} ->
         (IF form = "assign" \/ rec THEN "assignment" ELSE "ERROR")
    [] grammar \in {"javascript", "typescript"} ->
         (IF form = "assign" THEN "assignment_expression" ELSE "variable_declarator")
    [] grammar = "go" ->
         (IF form = "assign" THEN "assignment_statement" ELSE "const_spec")

\* the field names a binding node gives its two children
BindingFields(type) ==
  IF type \in {"variable_declarator", "const_spec"}
    THEN [binding |-> "name", init |-> "value"]
    ELSE [binding |-> "left", init |-> "right"]

\* one binding node with its identifier child and its literal child; node ids
\* are <<row, position in the statement, 0 | 1 | 2>>
BindingNode(grammar, form, rec, row, k, b) ==
  LET type == BindingType(grammar, form, rec)
      bad  == LiteralType(grammar, b.lit) = "ERROR"
  IN  [ id     |-> <<row, k, 0>>,
        type   |-> IF bad THEN "ERROR" ELSE type,
        fields |-> BindingFields(type),
        left   |-> [id |-> <<row, k, 1>>, parent |-> <<row, k, 0>>, type |-> "identifier",
                    text |-> b.name, start_point |-> <<row, 0>>],
        right  |-> [id |-> <<row, k, 2>>, parent |-> <<row, k, 0>>,
                    type |-> LiteralType(grammar, b.lit),
                    text |-> LiteralText(b.lit), start_point |-> <<row, 0>>] ]

RECURSIVE Flatten(_)
Flatten(ss) == IF ss = <<>> THEN <<>> ELSE Head(ss) \o Flatten(Tail(ss))

\* parser.parse(bytes(content)): never fails; the binding nodes of the tree in
\* pre-order, statement i being on row i - 1
Parse(grammar, content, rec) ==
  Flatten([i \in 1..Len(content) |->
            [k \in 1..Len(content[i].binds) |->
              BindingNode(grammar, content[i].form, rec, i - 1, k, content[i].binds[k])]])

\* the two query strings
AssignmentQuery ==
  [node |-> "assignment", binding |-> "left", init |-> "right", values |-> {"string"}]

DeclaratorQuery ==
  [node |-> "variable_declarator", binding |-> "name", init |-> "value",
   values |-> {"template_string", "string"}]

\* language.query(query_string) raises when the query names a node kind or a
\* field the grammar does not have
QueryCompiles(grammar, q) ==
  /\ ({q.node, "identifier"} \cup q.values) \subseteq GrammarSymbols(grammar)
  /\ {q.binding, q.init} \subseteq GrammarFields(grammar)

\* query.captures(tree.root_node): per match, the identifier capture and then
\* the literal capture
Captures(tree, q) ==
  Flatten([i \in 1..Len(tree) |->
    IF /\ tree[i].type = q.node
       /\ tree[i].fields.binding = q.binding /\ tree[i].fields.init = q.init
       /\ tree[i].right.type \in q.values
    THEN << [node |-> tree[i].left, name |-> "variable_name"],
            [node |-> tree[i].right, name |-> "string_value"] >>
    ELSE <<>>])

(***************************************************************************)
(* TreeSitterService: the registry and the detector, called sequentially   *)
(***************************************************************************)
\* self.parsers = {} and self.languages = {}
EmptyService == [parsers |-> [l \in Languages |-> NoParser], languages |-> [l \in Languages |-> None]]

\* Parser() followed by parser.set_language(language); maker tells the objects apart
NewParser(language, maker) == [grammar |-> language, maker |-> maker]

\* a variant that hands out whichever parser was cached first
CacheLookupAny(parsers, language_name) ==
  parsers[CHOOSE l \in Languages : parsers[l] # NoParser]

\* return self.parsers[language_name]
CacheLookup(parsers, language_name) == parsers[language_name]

\* a variant that rebuilds the dictionary around the new entry
RegistryPutOnly(parsers, language_name, parser) ==
  [l \in Languages |-> IF l = language_name THEN parser ELSE NoParser]

\* self.parsers[language_name] = parser
RegistryPut(parsers, language_name, parser) == [parsers EXCEPT ![language_name] = parser]

\* the body of HTTPException(status_code=500, detail=...)
UnsupportedLanguage(language_name) ==
  [kind |-> "HTTPException", status_code |-> 500,
   detail |-> <<"Parser for language", language_name, "is not supported">>]

\* an exception no handler catches: the framework answers 500 Internal Server Error
InternalServerError == [kind |-> "crash", status_code |-> 500, detail |-> <<"Internal Server Error">>]

\* _get_parser run without interruption
GetParser(s, language_name, maker) ==
  IF s.parsers[language_name] # NoParser
    THEN [svc |-> s, ok |-> TRUE, parser |-> CacheLookup(s.parsers, language_name)]
    ELSE LET cached == s.languages[language_name]
             loaded == get_language(language_name)
         IN  IF cached = None /\ ~loaded.ok
               THEN [svc |-> s, ok |-> FALSE, parser |-> NoParser]
               ELSE LET language == IF cached = None THEN loaded.grammar ELSE cached
                        parser   == NewParser(language, maker)
                    IN  [svc    |-> [parsers   |-> RegistryPut(s.parsers, language_name, parser),
                                     languages |-> [s.languages EXCEPT ![language_name] = language]],
                         ok     |-> TRUE,
                         parser |-> parser]

\* a variant that pairs every literal with every identifier
SameParentAlways(val_node, node) == TRUE

\* main.py: val_node.parent == node.parent
SameParent(val_node, node) == val_node.parent = node.parent

\* api/index.py: val_node.parent and val_node.parent.id == node.parent.id
SameParentId(val_node, node) == val_node.parent # NoNode /\ val_node.parent = node.parent

\* a variant that reports the zero-based row
LineOfRow(node) == node.start_point[1]

\* node.start_point[0] + 1 (Python indexes the point from 0, TLA+ from 1)
LineOf(node) == node.start_point[1] + 1

\* the correlation test of each file
Correlated(impl, val_node, node) ==
  IF impl = "main" THEN SameParent(val_node, node) ELSE SameParentId(val_node, node)

\* the nested loop over the captures: one entry per (identifier, literal) pair
\* the loop body reaches, with the stripped value and the outcome of the test
PairTrace(captures, impl) ==
  Flatten([i \in 1..Len(captures) |->
    IF captures[i].name = "variable_name"
      THEN Flatten([j \in 1..Len(captures) |->
             IF captures[j].name = "string_value" /\ Correlated(impl, captures[j].node, captures[i].node)
               THEN LET var_name_text   == captures[i].node.text
                        string_val_text == StripQuotes(captures[j].node.text)
                    IN  << [ var_id          |-> captures[i].node.id,
                             val_id          |-> captures[j].node.id,
                             var_name_text   |-> var_name_text,
                             literal         |-> captures[j].node.text,
                             string_val_text |-> string_val_text,
                             line            |-> LineOf(captures[i].node),
                             hit             |-> Heuristics(var_name_text, string_val_text) ] >>
               ELSE <<>>])
      ELSE <<>>])

\* found_secrets: one record appended per pair that passed the test
FoundSecrets(trace) ==
  LET hits == SelectSeq(trace, LAMBDA p : p.hit)
  IN  [k \in 1..Len(hits) |->
        [type |-> "HARDCODED_SECRET", line |-> hits[k].line, variable |-> hits[k].var_name_text]]

\* main.py: the query string chosen for a language
QueryStringMain(language) ==
  IF language \in {"python"} THEN AssignmentQuery
  ELSE IF language \in {"javascript", "typescript"} THEN DeclaratorQuery
  ELSE AssignmentQuery

\* api/index.py: the query string chosen for a language
QueryStringApi(language) ==
  IF language = "python" THEN AssignmentQuery ELSE DeclaratorQuery

\* the part of _find_hardcoded_secrets after the parser lookup
RunQuery(parser, tree, q, impl) ==
  IF ~QueryCompiles(parser.grammar, q)
    THEN [outcome |-> "query_error", query |-> q, captures |-> <<>>, trace |-> <<>>,
          found |-> <<>>]
    ELSE LET captures == Captures(tree, q)
             trace    == PairTrace(captures, impl)
         IN  [outcome |-> "ok", query |-> q, captures |-> captures, trace |-> trace,
              found |-> FoundSecrets(trace)]

\* main.py _find_hardcoded_secrets; the registry is warm when it is called
find_hardcoded_secrets_main(s, tree, language) ==
  RunQuery(GetParser(s, language, "seq").parser, tree, QueryStringMain(language), "main")

\* api/index.py _find_hardcoded_secrets
find_hardcoded_secrets_api(s, tree, language) ==
  RunQuery(GetParser(s, language, "seq").parser, tree, QueryStringApi(language), "api")

Failed(outcome) ==
  [outcome |-> outcome, query |-> NoQuery, captures |-> <<>>, trace |-> <<>>, found |-> <<>>]

\* analyze_code / find_opportunities up to the detector's result:
\* [svc: the service afterwards, tree, run: the detector's result]
Detect(s, request, rec, impl) ==
  LET g == GetParser(s, request.language, "seq")
  IN  IF ~g.ok
        THEN [svc |-> s, tree |-> <<>>, run |-> Failed("unsupported")]
        ELSE LET tree == Parse(g.parser.grammar, request.content, rec)
             IN  [svc |-> g.svc, tree |-> tree,
                  run |-> IF impl = "main"
                            THEN find_hardcoded_secrets_main(g.svc, tree, request.language)
                            ELSE find_hardcoded_secrets_api(g.svc, tree, request.language)]

\* the response the framework sends for a detector result of main.py
Respond(request, run) ==
  CASE run.outcome = "ok" ->
         [kind |-> "json", status_code |-> 200,
          body |-> [status |-> "analyzed", opportunities |-> run.found]]
    [] run.outcome = "unsupported" -> UnsupportedLanguage(request.language)
    [] OTHER -> InternalServerError

\* main.py analyze_code, run without interruption
analyze_code(s, request, rec) ==
  LET d == Detect(s, request, rec, "main")
  IN  [svc |-> d.svc, response |-> Respond(request, d.run)]

(***************************************************************************)
(* State.  svc: the TreeSitterService of each application.  ev: one        *)
(* detector run on a drawn request.  th, history, calls: concurrent        *)
(* requests to main.py.  http: one request at the HTTP boundary.           *)
(* recovers: whether the grammar's error recovery still finds the          *)
(* assignment inside a foreign declaration (fixed for a behaviour).        *)
(***************************************************************************)
Apps == {"main", "api"}

Threads == {"t1", "t2"}

Request(language, content) == [language |-> language, content |-> content]

IdleThread ==
  [pc |-> "idle", request |-> NoRequest, phase |-> 0, language |-> None, parser |-> NoParser,
   tree |-> <<>>, cold |-> FALSE]

IdleHttp == [pc |-> "idle"]

InitRest ==
  /\ svc = [a \in Apps |-> EmptyService]
  /\ th = [t \in Threads |-> IdleThread]
  /\ history = {}
  /\ calls = 0
  /\ http = IdleHttp
  /\ recovers \in BOOLEAN

(***************************************************************************)
(* SpecEval: the detector applied once to a request drawn at the start     *)
(***************************************************************************)
InitEval ==
  /\ InitRest
  /\ ev \in [stage : {"input"}, impl : Apps, request : [language : Languages, content : Contents]]

\* main.py: analyze_code up to the findings
EvalMain ==
  /\ ev.stage = "input" /\ ev.impl = "main"
  /\ LET d == Detect(svc["main"], ev.request, recovers, "main")
     IN  /\ svc' = [svc EXCEPT !["main"] = d.svc]
         /\ ev' = [stage |-> "done", impl |-> "main", request |-> ev.request,
                   tree |-> d.tree, run |-> d.run]
  /\ UNCHANGED <<th, history, calls, http, recovers>>

\* api/index.py: find_opportunities
EvalApi ==
  /\ ev.stage = "input" /\ ev.impl = "api"
  /\ LET d == Detect(svc["api"], ev.request, recovers, "api")
     IN  /\ svc' = [svc EXCEPT !["api"] = d.svc]
         /\ ev' = [stage |-> "done", impl |-> "api", request |-> ev.request,
                   tree |-> d.tree, run |-> d.run]
  /\ UNCHANGED <<th, history, calls, http, recovers>>

NextEval == EvalMain \/ EvalApi

SpecEval == InitEval /\ [][NextEval]_vars

EvalDone == ev.stage = "done"

EvalOk == EvalDone /\ ev.run.outcome = "ok"

HasClass(text, class) == \E i \in 1..Len(text) : text[i] \in class

\* some finding names this subject on this line
Reported(found, variable, line) ==
  \E k \in 1..Len(found) :
    found[k] = [type |-> "HARDCODED_SECRET", line |-> line, variable |-> variable]

(* C1: a finding is emitted only for a pair whose name passes the Sensitivity
   Check AND whose stripped value passes the Entropy Check: every finding comes
   from such a pair, a pair failing either check appends nothing, and the
   number of findings is the number of pairs passing both. *)
C1_BothChecksRequired ==
  EvalOk =>
    LET trace == ev.run.trace
        found == ev.run.found
        Both(p) == /\ SENSITIVE_VAR_REGEX_search(p.var_name_text)
                   /\ HIGH_ENTROPY_REGEX_search(p.string_val_text)
    IN  /\ \A k \in 1..Len(found) :
             \E i \in 1..Len(trace) :
               /\ Both(trace[i])
               /\ found[k].variable = trace[i].var_name_text
               /\ found[k].line = trace[i].line
        /\ \A i \in 1..Len(trace) :
             ~Both(trace[i]) => ~trace[i].hit
        /\ Len(found) = Cardinality({i \in 1..Len(trace) : Both(trace[i])})

\* a sensitive name with a failing value, and a passing value with a generic
\* name, were both evaluated in runs that reported nothing
C1_Witness ==
  /\ EvalOk
  /\ ev.run.found = <<>>
  /\ Len(ev.run.trace) = 2
  /\ \E i, j \in 1..Len(ev.run.trace) :
       /\ SENSITIVE_VAR_REGEX_search(ev.run.trace[i].var_name_text)
       /\ ~HIGH_ENTROPY_REGEX_search(ev.run.trace[i].string_val_text)
       /\ ~SENSITIVE_VAR_REGEX_search(ev.run.trace[j].var_name_text)
       /\ HIGH_ENTROPY_REGEX_search(ev.run.trace[j].string_val_text)

\* the 1-based line on which the binding node (assignment or declarator) that
\* owns a captured node starts; node ids begin with the row
AssignmentLine(id) == id[1] + 1

\* text holds at least MinRun consecutive letters/digits, and that run holds a
\* lowercase letter, an uppercase letter and a digit
RunWithClasses(text) ==
  \E i, j \in 1..Len(text) :
    /\ j - i + 1 >= MinRun
    /\ \A k \in i..j : IsAlnum(text[k])
    /\ \E k \in i..j : IsLower(text[k])
    /\ \E k \in i..j : IsUpper(text[k])
    /\ \E k \in i..j : IsDigit(text[k])

(* C2 as stated: every matched pair whose name is sensitive and whose value,
   one layer of quotes removed, has length >= 20 and holds an uppercase
   letter, a lowercase letter and a digit is reported, with its name and the
   line of its assignment. *)
C2_AsStated ==
  EvalOk =>
    \A i \in 1..Len(ev.run.trace) :
      LET p == ev.run.trace[i]
          v == StripOnce(p.literal)
      IN  ( /\ SENSITIVE_VAR_REGEX_search(p.var_name_text)
            /\ Len(v) >= MinRun
            /\ HasClass(v, UpperChars) /\ HasClass(v, LowerChars) /\ HasClass(v, DigitChars) )
          => Reported(ev.run.found, p.var_name_text, AssignmentLine(p.var_id))

(* C2 amended: every matched pair whose name is sensitive and whose value,
   one layer of quotes removed, holds a run of at least 20 consecutive ASCII
   letters/digits that itself holds an uppercase letter, a lowercase letter
   and a digit is reported, with its name and the line of its assignment. *)
C2_RunReported ==
  EvalOk =>
    \A i \in 1..Len(ev.run.trace) :
      LET p == ev.run.trace[i]
      IN  ( /\ SENSITIVE_VAR_REGEX_search(p.var_name_text)
            /\ RunWithClasses(StripOnce(p.literal)) )
          => Reported(ev.run.found, p.var_name_text, AssignmentLine(p.var_id))

\* a qualifying pair on the second line was reported on line 2
C2_Witness ==
  /\ EvalOk
  /\ \E i \in 1..Len(ev.run.trace) :
       /\ SENSITIVE_VAR_REGEX_search(ev.run.trace[i].var_name_text)
       /\ RunWithClasses(StripOnce(ev.run.trace[i].literal))
       /\ AssignmentLine(ev.run.trace[i].var_id) = 2
       /\ Reported(ev.run.found, ev.run.trace[i].var_name_text, 2)

(* C5 as stated: python selects the assignment-style template,
   javascript/typescript select the declarator-style template, and every
   other language falls back to the assignment-style template. *)
C5_TemplateSelection ==
  (EvalDone /\ ev.run.outcome # "unsupported") =>
    ev.run.query = IF ev.request.language \in {"javascript", "typescript"}
                     THEN DeclaratorQuery
                     ELSE AssignmentQuery

(* C9 as stated: the value handed to the Entropy Check is the literal's text
   with exactly one leading and one trailing delimiter character removed. *)
C9_OneLayer ==
  EvalOk =>
    \A i \in 1..Len(ev.run.trace) :
      ev.run.trace[i].string_val_text = StripOnce(ev.run.trace[i].literal)

\* v is text with a prefix and a suffix of delimiter characters cut off, and
\* no delimiter character is left at either end of v
FullyStripped(text, v) ==
  /\ \E i \in 1..(Len(text) + 1) :
       \E j \in 0..Len(text) :
         /\ v = SubSeq(text, i, j)
         /\ \A k \in 1..(i - 1) : text[k] \in StripChars
         /\ \A k \in (j + 1)..Len(text) : text[k] \in StripChars
  /\ v # <<>> => (v[1] \notin StripChars /\ v[Len(v)] \notin StripChars)

(* C9 amended: the value handed to the Entropy Check is the literal's text
   with every leading and every trailing quote/backtick character removed
   (all layers, whichever of the three characters they are); delimiter
   characters in the interior of the value are left in place. *)
C9_AllLayers ==
  EvalOk =>
    \A i \in 1..Len(ev.run.trace) :
      FullyStripped(ev.run.trace[i].literal, ev.run.trace[i].string_val_text)

\* a literal with more than one delimiter character at an end was evaluated,
\* and one with a delimiter character in its interior
C9_Witness ==
  /\ EvalOk
  /\ \E i \in 1..Len(ev.run.trace) :
       LET p == ev.run.trace[i]
       IN  /\ p.string_val_text # StripOnce(p.literal)
           /\ Len(p.literal) - Len(p.string_val_text) >= 4

\* the binding nodes of the tree the selected query matches, in tree order
Matches(tree, q) ==
  SelectSeq(tree, LAMBDA n : n.type = q.node /\ n.left.type = "identifier"
                             /\ n.right.type \in q.values)

\* one finding per match whose own name and own value pass both checks
ExpectedFindings(tree, q) ==
  LET pass == SelectSeq(Matches(tree, q),
                LAMBDA n : /\ SENSITIVE_VAR_REGEX_search(n.left.text)
                           /\ HIGH_ENTROPY_REGEX_search(StripQuotes(n.right.text)))
  IN  [k \in 1..Len(pass) |->
        [type |-> "HARDCODED_SECRET", line |-> AssignmentLine(pass[k].id),
         variable |-> pass[k].left.text]]

(* C10: the findings list is exactly the sequence, in tree (capture) order, of
   the matches whose own name and own value pass both checks, each once: an
   identifier is paired only with the literal under its own
   assignment/declarator node. *)
C10_OneFindingPerMatch ==
  EvalOk => ev.run.found = ExpectedFindings(ev.tree, ev.run.query)

\* two declarators under one statement and a second statement: three matches,
\* two findings in line order
C10_Witness ==
  /\ EvalOk
  /\ Len(Matches(ev.tree, ev.run.query)) = 3
  /\ \E i, j \in 1..Len(ev.tree) : i # j /\ ev.tree[i].id[1] = ev.tree[j].id[1]
  /\ Len(ev.run.found) = 2
  /\ ev.run.found[1].line < ev.run.found[2].line

(***************************************************************************)
(* Spec: concurrent requests to main.py.  The endpoint is a plain def, so  *)
(* the framework runs each request on a worker thread; a thread can be     *)
(* preempted between any two accesses to the shared dictionaries.          *)
(***************************************************************************)
\* requests started in one behaviour
MaxCalls == 3

C_python == <<Stmt("assign", <<Bind(N_apiSecretKey, Lit("dq", B_strong))>>)>>

C_javascript == <<Stmt("decl", <<Bind(N_AUTH_TOKEN, Lit("bq", B_strong))>>)>>

ServiceRequests ==
  { Request("python", C_python), Request("python", C_javascript),
    Request("javascript", C_javascript), Request("go", C_python),
    Request("klingon", C_python) }

Init ==
  /\ InitRest
  /\ ev = [stage |-> "unused"]

\* the thread returns to the pool with its response recorded
Answer(t, response) ==
  /\ history' = history \cup
       {[request |-> th[t].request, cold |-> th[t].cold, response |-> response]}
  /\ th' = [th EXCEPT ![t] = IdleThread]

\* where _get_parser returns to: analyze_code (phase 1) or
\* _find_hardcoded_secrets (phase 2)
ReturnPc(phase) == IF phase = 1 THEN "parse" ELSE "query"

\* analyze_file -> analyze_code -> _get_parser(request.language)
Call(t) ==
  /\ th[t].pc = "idle"
  /\ calls < MaxCalls
  /\ \E request \in ServiceRequests :
       th' = [th EXCEPT ![t] = [IdleThread EXCEPT !.pc = "gp_check", !.request = request,
                                                  !.phase = 1]]
  /\ calls' = calls + 1
  /\ UNCHANGED <<svc, ev, history, http, recovers>>

\* if language_name in self.parsers
GpCheck(t) ==
  /\ th[t].pc = "gp_check"
  /\ th' = [th EXCEPT ![t].pc =
              IF svc["main"].parsers[th[t].request.language] # NoParser
                THEN "gp_hit" ELSE "gp_langget"]
  /\ UNCHANGED <<svc, ev, history, calls, http, recovers>>

\* return self.parsers[language_name]; a missing key is a KeyError outside the try
GpHit(t) ==
  /\ th[t].pc = "gp_hit"
  /\ LET parser == CacheLookup(svc["main"].parsers, th[t].request.language)
     IN  IF parser = NoParser
           THEN Answer(t, InternalServerError)
           ELSE /\ th' = [th EXCEPT ![t].parser = parser, ![t].pc = ReturnPc(th[t].phase)]
                /\ UNCHANGED history
  /\ UNCHANGED <<svc, ev, calls, http, recovers>>

\* language = self.languages.get(language_name)
GpLangGet(t) ==
  /\ th[t].pc = "gp_langget"
  /\ LET language == svc["main"].languages[th[t].request.language]
     IN  th' = [th EXCEPT ![t].language = language, ![t].cold = TRUE,
                          ![t].pc = IF language = None THEN "gp_load" ELSE "gp_new"]
  /\ UNCHANGED <<svc, ev, history, calls, http, recovers>>

\* language = get_language(language_name); self.languages[language_name] = language;
\* an exception becomes the HTTPException
GpLoad(t) ==
  /\ th[t].pc = "gp_load"
  /\ LET loaded == get_language(th[t].request.language)
     IN  IF ~loaded.ok
           THEN /\ Answer(t, UnsupportedLanguage(th[t].request.language))
                /\ UNCHANGED svc
           ELSE /\ svc' = [svc EXCEPT !["main"].languages[th[t].request.language] =
                                        loaded.grammar]
                /\ th' = [th EXCEPT ![t].language = loaded.grammar, ![t].pc = "gp_new"]
                /\ UNCHANGED history
  /\ UNCHANGED <<ev, calls, http, recovers>>

\* parser = Parser(); parser.set_language(language); self.parsers[language_name] = parser
GpStore(t) ==
  /\ th[t].pc = "gp_new"
  /\ LET parser == NewParser(th[t].language, t)
     IN  /\ svc' = [svc EXCEPT !["main"].parsers =
                      RegistryPut(svc["main"].parsers, th[t].request.language, parser)]
         /\ th' = [th EXCEPT ![t].parser = parser, ![t].pc = ReturnPc(th[t].phase)]
  /\ UNCHANGED <<ev, history, calls, http, recovers>>

\* tree = parser.parse(...); _find_hardcoded_secrets picks its query string and
\* calls _get_parser again
ParseStep(t) ==
  /\ th[t].pc = "parse"
  /\ th' = [th EXCEPT ![t].tree = Parse(th[t].parser.grammar, th[t].request.content, recovers),
                      ![t].phase = 2, ![t].pc = "gp_check"]
  /\ UNCHANGED <<svc, ev, history, calls, http, recovers>>

\* query, captures, the nested loop, and the response
QueryStep(t) ==
  /\ th[t].pc = "query"
  /\ Answer(t, Respond(th[t].request,
                 RunQuery(th[t].parser, th[t].tree,
                          QueryStringMain(th[t].request.language), "main")))
  /\ UNCHANGED <<svc, ev, calls, http, recovers>>

Next ==
  \E t \in Threads :
    \/ Call(t)
    \/ GpCheck(t)
    \/ GpHit(t)
    \/ GpLangGet(t)
    \/ GpLoad(t)
    \/ GpStore(t)
    \/ ParseStep(t)
    \/ QueryStep(t)

Spec == Init /\ [][Next]_vars

Analyzed(response) == response.kind = "json" /\ response.body.status = "analyzed"

(* C3 as stated: for every language the parser provider resolves, and every
   source text, analyze_code answers with status "analyzed" and a findings
   list, never an error. *)
C3_SupportedAlwaysAnalyzed ==
  \A h \in history :
    h.request.language \in SupportedLanguages => Analyzed(h.response)

\* what the registry and the callers hold at any moment
C6_State ==
  /\ \A t \in Threads :
       th[t].pc \in {"parse", "query"} =>
         th[t].parser.grammar = get_language(th[t].request.language).grammar
  /\ \A l \in Languages :
       svc["main"].parsers[l] # NoParser =>
         /\ get_language(l).ok
         /\ svc["main"].parsers[l].grammar = get_language(l).grammar
  /\ \A h \in history :
       h.response = analyze_code(EmptyService, h.request, recovers).response

\* an entry, once written, stays, and stays a parser of the same grammar
C6_Step ==
  \A l \in Languages :
    svc["main"].parsers[l] # NoParser =>
      /\ svc'["main"].parsers[l] # NoParser
      /\ svc'["main"].parsers[l].grammar = svc["main"].parsers[l].grammar

(* C6: under every interleaving of calls that first-use the same language,
   every caller holds a parser of the requested language's grammar after each
   of its two _get_parser lookups, every response is the one the same request
   gets when run alone, every registry entry is a parser of its language's
   grammar, and an entry is never removed. *)
C6_IdempotentOverwrite == []C6_State /\ [][C6_Step]_vars

\* a caller that built its own parser got another caller's parser from its
\* second lookup: the entry was written twice
C6_Witness ==
  \E t \in Threads :
    /\ th[t].pc = "query"
    /\ th[t].cold
    /\ th[t].parser.maker # t
    /\ \E u \in Threads \ {t} : th[u].request.language = th[t].request.language

(* C7: two calls of analyze_code with the same request give the same
   response, whether the call found the registry cold or warm. *)
C7_Idempotent ==
  \A h1, h2 \in history :
    h1.request = h2.request => h1.response = h2.response

\* the same request was answered once cold and once warm, with a finding
C7_Witness ==
  \E h1, h2 \in history :
    /\ h1.request = h2.request
    /\ h1.cold /\ ~h2.cold
    /\ Analyzed(h1.response)
    /\ Len(h1.response.body.opportunities) = 1

(***************************************************************************)
(* SpecHttp: POST /analyze-file of both applications, one request at a     *)
(* time.  api/index.py answers from AIService.generate_insights alone.     *)
(***************************************************************************)
\* JSON values: a type and, for an array, the types of its items
JValue(type, items) == [type |-> type, items |-> items]

JArray(items) == JValue("array", items)

\* a JSON document: its top-level type and, for an object, its "opportunities"
\* member when it has one
JDoc(type, has, member) == [type |-> type, has |-> has, opportunities |-> member]

Documents ==
  { JDoc("object", TRUE, JArray(<<>>)),
    JDoc("object", TRUE, JArray(<<"object">>)),
    JDoc("object", TRUE, JArray(<<"string">>)),
    JDoc("object", TRUE, JValue("null", <<>>)),
    JDoc("object", TRUE, JValue("string", <<>>)),
    JDoc("object", FALSE, JValue("null", <<>>)),
    JDoc("array", FALSE, JValue("null", <<>>)) }

\* response.text as tokens: a code fence, prose, or a JSON document
Fence == [token |-> "fence", doc |-> JDoc("none", FALSE, JValue("null", <<>>))]

Prose == [token |-> "prose", doc |-> JDoc("none", FALSE, JValue("null", <<>>))]

DocToken(d) == [token |-> "json", doc |-> d]

\* what awaiting the model can bring: an exception from the call, a response
\* whose .text raises, or a text
ModelReplies ==
  {[kind |-> "error", text |-> <<>>], [kind |-> "blocked", text |-> <<>>]}
  \cup {[kind |-> "text", text |-> <<Prose>>],
        [kind |-> "text", text |-> <<>>]}
  \cup {[kind |-> "text", text |-> <<DocToken(d)>>] : d \in Documents}
  \cup {[kind |-> "text", text |-> <<Fence, DocToken(d), Fence>>] : d \in Documents}
  \cup {[kind |-> "text", text |-> <<Prose, DocToken(d)>>] : d \in Documents}

\* re.sub over the stripped text: the fences go
RemoveFences(text) == SelectSeq(text, LAMBDA x : x.token # "fence")

\* json.loads: exactly one document and nothing else, or an exception
json_loads(text) ==
  IF Len(text) = 1 /\ text[1].token = "json"
    THEN [ok |-> TRUE, data |-> text[1].doc]
    ELSE [ok |-> FALSE, data |-> JDoc("none", FALSE, JValue("null", <<>>))]

\* AIService.generate_insights: everything after the prompt is inside the try
generate_insights(reply) ==
  IF reply.kind # "text" THEN JArray(<<>>)
  ELSE LET parsed == json_loads(RemoveFences(reply.text))
       IN  IF ~parsed.ok THEN JArray(<<>>)
           ELSE IF parsed.data.type # "object" THEN JArray(<<>>)
           ELSE IF parsed.data.has THEN parsed.data.opportunities
           ELSE JArray(<<>>)

\* AnalysisResponse(status="analyzed", opportunities=...): the field is
\* list[dict]; a validation error is not caught
AnalysisResponse(opportunities) ==
  IF /\ opportunities.type = "array"
     /\ \A i \in 1..Len(opportunities.items) : opportunities.items[i] = "object"
    THEN [kind |-> "json", status_code |-> 200,
          body |-> [status |-> "analyzed", opportunities |-> opportunities.items]]
    ELSE InternalServerError

HttpContents == {<<>>, C_python, C_javascript}

HttpRequests == [language : Languages, content : HttpContents]

InitHttp ==
  /\ InitRest
  /\ ev = [stage |-> "unused"]

\* main.py analyze_file
HttpMain ==
  /\ http.pc = "idle"
  /\ \E request \in HttpRequests :
       LET r == analyze_code(svc["main"], request, recovers)
       IN  /\ svc' = [svc EXCEPT !["main"] = r.svc]
           /\ http' = [pc |-> "answered", app |-> "main", request |-> request,
                       response |-> r.response]
  /\ UNCHANGED <<ev, th, history, calls, recovers>>

\* api/index.py analyze_file up to the await inside generate_insights
HttpApiCall ==
  /\ http.pc = "idle"
  /\ \E request \in HttpRequests :
       http' = [pc |-> "awaiting", app |-> "api", request |-> request]
  /\ UNCHANGED <<svc, ev, th, history, calls, recovers>>

\* the model answers (or fails); generate_insights returns; the response is built
HttpApiReply ==
  /\ http.pc = "awaiting"
  /\ \E reply \in ModelReplies :
       LET insights == generate_insights(reply)
       IN  http' = [pc |-> "answered", app |-> "api", request |-> http.request,
                    reply |-> reply, insights |-> insights,
                    response |-> AnalysisResponse(insights)]
  /\ UNCHANGED <<svc, ev, th, history, calls, recovers>>

\* the next request
HttpNext ==
  /\ http.pc = "answered"
  /\ http' = IdleHttp
  /\ UNCHANGED <<svc, ev, th, history, calls, recovers>>

NextHttp == HttpMain \/ HttpApiCall \/ HttpApiReply \/ HttpNext

SpecHttp == InitHttp /\ [][NextHttp]_vars

(* C4 as stated: a POST /analyze-file whose language has no resolvable parser
   fails with the unsupported-language error: no "analyzed" response and no
   generic crash. *)
C4_UnsupportedRejected ==
  (http.pc = "answered" /\ ~get_language(http.request.language).ok) =>
    http.response = UnsupportedLanguage(http.request.language)

\* the reply is a JSON object whose "opportunities" is a list of objects
ExpectedShape(reply) ==
  /\ reply.kind = "text"
  /\ json_loads(RemoveFences(reply.text)).ok
  /\ LET data == json_loads(RemoveFences(reply.text)).data
     IN  /\ data.type = "object"
         /\ data.has
         /\ data.opportunities.type = "array"
         /\ \A i \in 1..Len(data.opportunities.items) : data.opportunities.items[i] = "object"

(* C8 as stated: generate_insights returns an empty sequence on every failure,
   a reply of the wrong shape included, so api/index.py analyze_file always
   answers with status "analyzed" and a list of records. *)
C8_FailuresAbsorbed ==
  (http.pc = "answered" /\ http.app = "api") =>
    /\ ~ExpectedShape(http.reply) => http.insights = JArray(<<>>)
    /\ Analyzed(http.response)

====
